---- MODULE Spec2Model ----
(***************************************************************************)
(* The spreadsheet-to-CSV converter (xls_to_csv.py) and the CSV validator  *)
(* (validate_csv.py) of the expense tracker, as one state machine.         *)
(*                                                                         *)
(* Text is a sequence of one-character strings, so that trimming, case     *)
(* folding, date formatting, CSV quoting and CSV parsing are computed      *)
(* character by character.  Positions keep the 0-based numbering of the    *)
(* Python code; position p of a list is element p+1 of the sequence.       *)
(***************************************************************************)
EXTENDS Integers, Sequences, FiniteSets, TLC

(* ------------------------------ bounds --------------------------------- *)
\* Sheets per workbook.
MaxSheets == 2
\* Data rows below the header row of a generated sheet.
MaxData == 2
\* Data lines after the three leading lines of a CSV handed to the validator.
MaxLines == 2

(* ------------------------------- text ---------------------------------- *)
Digits == <<"0","1","2","3","4","5","6","7","8","9">>
UpperLetters == <<"A","B","C","D","E","F","G","H","I","J","K","L","M","N","O","P","Q","R","S","T","U","V","W","X","Y","Z">>
LowerLetters == <<"a","b","c","d","e","f","g","h","i","j","k","l","m","n","o","p","q","r","s","t","u","v","w","x","y","z">>
Quote == "\""
Comma == ","

IsDigit(ch) == \E i \in 1..10 : Digits[i] = ch
DigitVal(ch) == (CHOOSE i \in 1..10 : Digits[i] = ch) - 1
IsSpace(ch) == ch = " "

\* str.lower()
LowerChar(ch) ==
    IF \E i \in 1..26 : UpperLetters[i] = ch
    THEN LowerLetters[CHOOSE i \in 1..26 : UpperLetters[i] = ch]
    ELSE ch
lower(s) == [i \in 1..Len(s) |-> LowerChar(s[i])]

\* str.strip()
RECURSIVE lstrip(_)
lstrip(s) == IF s # <<>> /\ IsSpace(Head(s)) THEN lstrip(Tail(s)) ELSE s
RECURSIVE rstrip(_)
rstrip(s) == IF s # <<>> /\ IsSpace(s[Len(s)]) THEN rstrip(SubSeq(s, 1, Len(s) - 1)) ELSE s
strip(s) == rstrip(lstrip(s))

\* str.replace(ch, '')
remove(s, ch) == SelectSeq(s, LAMBDA x : x # ch)

\* Position (1-based) of the first ch in s, 0 when there is none.
Find(s, chars) ==
    IF \E i \in 1..Len(s) : s[i] \in chars
    THEN CHOOSE i \in 1..Len(s) : s[i] \in chars /\ \A j \in 1..(i - 1) : s[j] \notin chars
    ELSE 0

\* str(n) of a non-negative integer
RECURSIVE str_int(_)
str_int(n) == IF n < 10 THEN <<Digits[n + 1]>> ELSE str_int(n \div 10) \o <<Digits[(n % 10) + 1]>>
RECURSIVE zfill(_, _)
zfill(s, w) == IF Len(s) < w THEN zfill(<<"0">> \o s, w) ELSE s
RECURSIVE int_of(_)
int_of(s) == IF s = <<>> THEN 0 ELSE 10 * int_of(SubSeq(s, 1, Len(s) - 1)) + DigitVal(s[Len(s)])
AllDigits(s) == s # <<>> /\ \A i \in 1..Len(s) : IsDigit(s[i])

\* A run of digits in which single underscores may separate digits.
DigitPart(s) ==
    /\ s # <<>>
    /\ IsDigit(s[1]) /\ IsDigit(s[Len(s)])
    /\ \A i \in 1..Len(s) : IsDigit(s[i]) \/ s[i] = "_"
    /\ \A i \in 1..(Len(s) - 1) : ~(s[i] = "_" /\ s[i + 1] = "_")

Unsigned(s) == IF s # <<>> /\ Head(s) \in {"+", "-"} THEN Tail(s) ELSE s

Mantissa(s) ==
    LET dot == Find(s, {"."}) IN
    IF dot = 0 THEN DigitPart(s)
    ELSE LET ip == SubSeq(s, 1, dot - 1)
             fp == SubSeq(s, dot + 1, Len(s))
         IN /\ ip = <<>> \/ DigitPart(ip)
            /\ fp = <<>> \/ DigitPart(fp)
            /\ ~(ip = <<>> /\ fp = <<>>)

\* Whether float(s) returns (TRUE) or raises ValueError (FALSE).
float_ok(s) ==
    LET body == Unsigned(strip(s))
        e == Find(body, {"e", "E"})
    IN \/ lower(body) \in {<<"i","n","f">>, <<"i","n","f","i","n","i","t","y">>, <<"n","a","n">>}
       \/ /\ e = 0
          /\ Mantissa(body)
       \/ /\ e > 0
          /\ Mantissa(SubSeq(body, 1, e - 1))
          /\ DigitPart(Unsigned(SubSeq(body, e + 1, Len(body))))

(* ------------------------------- dates --------------------------------- *)
\* A date is the integer yyyymmdd; NaT is pandas' missing timestamp.
NaT == 0
MkDate(y, m, d) == y * 10000 + m * 100 + d
Year(t) == t \div 10000
Month(t) == (t \div 100) % 100
Day(t) == t % 100
IsLeap(y) == (y % 4 = 0 /\ y % 100 # 0) \/ y % 400 = 0
DaysIn(y, m) ==
    IF m = 2 THEN (IF IsLeap(y) THEN 29 ELSE 28)
    ELSE IF m \in {4, 6, 9, 11} THEN 30 ELSE 31

\* Timestamp of a text in the form YYYY-MM-DD, NaT for any other text.
parse_iso(s) ==
    IF /\ Len(s) = 10
       /\ s[5] = "-" /\ s[8] = "-"
       /\ AllDigits(SubSeq(s, 1, 4)) /\ AllDigits(SubSeq(s, 6, 7)) /\ AllDigits(SubSeq(s, 9, 10))
    THEN LET y == int_of(SubSeq(s, 1, 4))
             m == int_of(SubSeq(s, 6, 7))
             d == int_of(SubSeq(s, 9, 10))
         IN IF y >= 1 /\ m \in 1..12 /\ d >= 1 /\ d <= DaysIn(y, m) THEN MkDate(y, m, d) ELSE NaT
    ELSE NaT

\* Series.dt.strftime('%Y-%m-%d') of one timestamp
strftime(t) ==
    zfill(str_int(Year(t)), 4) \o <<"-">> \o zfill(str_int(Month(t)), 2) \o <<"-">> \o zfill(str_int(Day(t)), 2)

(* ------------------------------- cells --------------------------------- *)
\* A cell of a sheet read by pandas: missing (NaN), text, an integer or a date.
NaN == [k |-> "nan", s |-> <<>>, n |-> 0]
T(s) == [k |-> "text", s |-> s, n |-> 0]
N(n) == [k |-> "int", s |-> <<>>, n |-> n]
D(y, m, d) == [k |-> "date", s |-> <<>>, n |-> MkDate(y, m, d)]

\* value == 'Date' / 'Date' in row.values : equality with the text, untrimmed
eq_text(cell, s) == cell.k = "text" /\ cell.s = s
notna(cell) == cell.k # "nan"

\* pd.to_datetime(value, errors='coerce') of one cell
to_datetime(cell) ==
    CASE cell.k = "date" -> cell.n
      [] cell.k = "text" -> parse_iso(strip(cell.s))
      [] cell.k = "int" -> MkDate(1970, 1, 1)
      [] OTHER -> NaT

\* Variant of csv_text that strips '$' and ',' from text, which to_csv does not do.
csv_text_cleaned(cell) ==
    CASE cell.k = "text" -> remove(remove(cell.s, "$"), ",")
      [] cell.k = "int" -> str_int(cell.n)
      [] cell.k = "date" -> strftime(cell.n) \o <<" ","0","0",":","0","0",":","0","0">>
      [] OTHER -> <<>>
\* The text DataFrame.to_csv writes for one value (NaN as the empty text).
csv_text(cell) ==
    CASE cell.k = "text" -> cell.s
      [] cell.k = "int" -> str_int(cell.n)
      [] cell.k = "date" -> strftime(cell.n) \o <<" ","0","0",":","0","0",":","0","0">>
      [] OTHER -> <<>>

(* -------------------------------- CSV ---------------------------------- *)
\* csv.writer with QUOTE_MINIMAL, as DataFrame.to_csv uses it: a field holding the
\* delimiter, the quote character or a line break is quoted, its quotes doubled.
NeedsQuote(f) == \E i \in 1..Len(f) : f[i] \in {Comma, Quote, "\n", "\r"}
RECURSIVE DoubleQuotes(_)
DoubleQuotes(f) ==
    IF f = <<>> THEN <<>>
    ELSE (IF Head(f) = Quote THEN <<Quote, Quote>> ELSE <<Head(f)>>) \o DoubleQuotes(Tail(f))
\* Variant of QuoteField that never quotes (QUOTE_NONE without an escape character).
NoQuoteField(f) == f
QuoteField(f) == IF NeedsQuote(f) THEN <<Quote>> \o DoubleQuotes(f) \o <<Quote>> ELSE f
RECURSIVE JoinFields(_)
JoinFields(fs) ==
    IF fs = <<>> THEN <<>>
    ELSE IF Len(fs) = 1 THEN fs[1]
    ELSE fs[1] \o <<Comma>> \o JoinFields(Tail(fs))
\* One line of to_csv(index=False, header=False) for a row of values.
to_csv_line(cells) == JoinFields([j \in 1..Len(cells) |-> QuoteField(csv_text(cells[j]))])

\* csv.reader (excel dialect) on one line: the parser's states are those of the
\* csv module; an empty line yields the empty row.
RECURSIVE parse_line(_, _, _, _)
parse_line(rest, st, fld, fields) ==
    IF rest = <<>>
    THEN (IF st = "START_RECORD" THEN fields ELSE Append(fields, fld))
    ELSE LET c == Head(rest)
             r == Tail(rest)
         IN CASE st \in {"START_RECORD", "START_FIELD"} ->
                   IF c = Quote THEN parse_line(r, "IN_QUOTED_FIELD", <<>>, fields)
                   ELSE IF c = Comma THEN parse_line(r, "START_FIELD", <<>>, Append(fields, <<>>))
                   ELSE parse_line(r, "IN_FIELD", <<c>>, fields)
              [] st = "IN_FIELD" ->
                   IF c = Comma THEN parse_line(r, "START_FIELD", <<>>, Append(fields, fld))
                   ELSE parse_line(r, "IN_FIELD", Append(fld, c), fields)
              [] st = "IN_QUOTED_FIELD" ->
                   IF c = Quote THEN parse_line(r, "QUOTE_IN_QUOTED_FIELD", fld, fields)
                   ELSE parse_line(r, "IN_QUOTED_FIELD", Append(fld, c), fields)
              [] OTHER ->
                   IF c = Quote THEN parse_line(r, "IN_QUOTED_FIELD", Append(fld, c), fields)
                   ELSE IF c = Comma THEN parse_line(r, "START_FIELD", <<>>, Append(fields, fld))
                   ELSE parse_line(r, "IN_FIELD", Append(fld, c), fields)
csv_row(line) == parse_line(line, "START_RECORD", <<>>, <<>>)

(* ----------------------------- converter ------------------------------- *)
None == -1
\* data_end_col = date_col_idx + 7
WindowWidth == 7
Columns == <<<<"D","a","t","e">>, <<"P","l","a","c","e">>, <<"A","m","o","u","n","t">>, <<"N","o","t","e","s">>, <<"T","y","p","e">>, <<"W","e","e","k">>, <<"M","e","t","h","o","d">>>>
ExcludedName == <<"s","u","m","m","a","r","y">>
HeaderText == <<"D","a","t","e">>
DateFloor == parse_iso(<<"2","0","2","5","-","0","1","-","0","1">>)

\* sheet_name.lower() == 'summary'
\* Variant of Excluded without the lower(): only the spelling "Summary" is excluded.
ExcludedCaseSensitive(name) == name = <<"S","u","m","m","a","r","y">>
Excluded(name) == lower(name) = ExcludedName

\* 'Date' in row.values
RowHasDate(row) == \E j \in 1..Len(row) : eq_text(row[j], HeaderText)

\* for idx, row in df.iterrows(): the first idx whose row holds 'Date', else None
RECURSIVE scan_rows(_, _)
scan_rows(df, idx) ==
    IF idx >= Len(df) THEN None
    ELSE IF RowHasDate(df[idx + 1]) THEN idx
    ELSE scan_rows(df, idx + 1)
\* Variant of header_row_idx without the break: the last row holding 'Date' wins.
LastHeaderRow(df) ==
    IF \E i \in 1..Len(df) : RowHasDate(df[i])
    THEN (CHOOSE i \in 1..Len(df) : RowHasDate(df[i]) /\ \A k \in (i + 1)..Len(df) : ~RowHasDate(df[k])) - 1
    ELSE None
header_row_idx(df) == scan_rows(df, 0)

\* for col_idx, value in enumerate(header_row): the first col_idx with value == 'Date'
RECURSIVE scan_cols(_, _)
scan_cols(row, col_idx) ==
    IF col_idx >= Len(row) THEN None
    ELSE IF eq_text(row[col_idx + 1], HeaderText) THEN col_idx
    ELSE scan_cols(row, col_idx + 1)
date_col_idx(df, h) == scan_cols(df[h + 1], 0)

\* The header search of one sheet: <<header_row_idx, date_col_idx>>, None when the
\* sheet is skipped for want of a header row or of a Date column.
locate(df) ==
    LET h == header_row_idx(df) IN
    IF h = None THEN <<None, None>> ELSE <<h, date_col_idx(df, h)>>
Located(df) == locate(df)[1] # None /\ locate(df)[2] # None

Min(a, b) == IF a < b THEN a ELSE b

\* df.iloc[data_start_row:, date_col_idx:data_end_col]; a slice past the right edge is
\* cut at the edge.  Each row keeps where it came from: src_row is the row's position
\* in the sheet (its pandas index label), src_sheet the sheet's position in the workbook.
\* Variant of iloc that skips the column after the anchor (an off-by-one in the window).
iloc_misaligned(df, s, h, c) ==
    [i \in 1..(Len(df) - (h + 1)) |->
        [src_sheet |-> s, src_row |-> h + i,
         cells |-> <<df[h + 1 + i][c + 1]>>
                   \o SubSeq(df[h + 1 + i], c + 3, Min(c + 1 + WindowWidth, Len(df[h + 1 + i])))]]
iloc(df, s, h, c) ==
    [i \in 1..(Len(df) - (h + 1)) |->
        [src_sheet |-> s, src_row |-> h + i,
         cells |-> SubSeq(df[h + 1 + i], c + 1, Min(c + WindowWidth, Len(df[h + 1 + i])))]]
\* Number of columns of that slice.
sliced_width(df, h, c) == Min(c + WindowWidth, Len(df[h + 1])) - c
\* df.columns = [7 names] raises ValueError unless the slice has 7 columns.
LengthMismatch(df) ==
    /\ Located(df)
    /\ sliced_width(df, locate(df)[1], locate(df)[2]) # Len(Columns)

\* df = df[df['Date'].notna()]
dropna_date(frame) == SelectSeq(frame, LAMBDA r : notna(r.cells[1]))
\* df['Date'] = pd.to_datetime(df['Date'], errors='coerce')
coerce_date(frame) ==
    [i \in 1..Len(frame) |->
        [frame[i] EXCEPT !.cells[1] = [k |-> "date", s |-> <<>>, n |-> to_datetime(frame[i].cells[1])]]]
\* df = df[df['Date'] >= '2025-01-01'] ; a comparison with NaT is False
OnOrAfterFloor(t) == t # NaT /\ t >= DateFloor
floor_filter(frame) == SelectSeq(frame, LAMBDA r : OnOrAfterFloor(r.cells[1].n))
\* df['Date'] = df['Date'].dt.strftime('%Y-%m-%d')
format_date(frame) ==
    [i \in 1..Len(frame) |-> [frame[i] EXCEPT !.cells[1] = T(strftime(frame[i].cells[1].n))]]

\* The frame one located sheet of 7 columns yields.
extract(df, s) ==
    format_date(floor_filter(coerce_date(dropna_date(iloc(df, s, locate(df)[1], locate(df)[2])))))

\* pd.concat(all_dataframes, ignore_index=True)
\* Variant of concat that puts later frames first.
RECURSIVE concat_reversed(_)
concat_reversed(frames) == IF frames = <<>> THEN <<>> ELSE concat_reversed(Tail(frames)) \o Head(frames)
RECURSIVE concat(_)
concat(frames) == IF frames = <<>> THEN <<>> ELSE Head(frames) \o concat(Tail(frames))

\* The written file: three empty lines, then one line per row of the combined frame.
file_lines(combined) == <<<<>>, <<>>, <<>>>> \o [i \in 1..Len(combined) |-> to_csv_line(combined[i].cells)]

(* ----------------------------- validator ------------------------------- *)
valid_types ==
    {<<"H","o","u","s","i","n","g">>, <<"U","t","i","l","i","t","i","e","s">>, <<"G","r","o","c","e","r","i","e","s">>, <<"D","i","n","i","n","g"," ","O","u","t">>, <<"I","n","s","u","r","a","n","c","e">>, <<"G","a","s">>,
     <<"V","e","h","i","c","l","e"," ","M","a","i","n","t","e","n","a","n","c","e">>, <<"E","n","t","e","r","t","a","i","n","m","e","n","t">>, <<"S","u","b","s","c","r","i","p","t","i","o","n","s">>, <<"R","e","c","r","e","a","t","i","o","n"," ","A","c","t","i","v","i","t","i","e","s">>,
     <<"P","e","t"," ","C","a","r","e">>, <<"T","a","x"," ","-"," ","M","e","d","i","c","a","l">>, <<"T","a","x"," ","-"," ","D","o","n","a","t","i","o","n">>, <<"O","t","h","e","r">>}
valid_methods == {<<"C","a","s","h">>, <<"D","e","b","i","t">>, <<"C","h","e","q","u","e">>, <<"C","I","B","C"," ","M","C">>, <<"P","C","F"," ","M","C">>, <<"W","S"," ","V","I","S","A">>, <<"V","I","S","A">>}
\* if len(row) < 7
MinColumns == 7
\* for _ in range(3): next(reader, None)
HeaderRows == 3

\* clean_amount = amount.replace('$', '').replace(',', '')
clean_amount(amount) == remove(remove(amount, "$"), Comma)

\* row_errors of a row of at least 7 columns, in the order the checks append them
row_errors(row) ==
    LET date == strip(row[1])
        amount == strip(row[3])
        expense_type == strip(row[5])
        method == strip(row[7])
    IN (IF date = <<>> THEN <<"Missing Date">> ELSE <<>>)
       \o (IF amount = <<>> THEN <<"Missing Amount">>
           ELSE IF ~float_ok(clean_amount(amount)) THEN <<"Invalid Amount">> ELSE <<>>)
       \o (IF expense_type = <<>> THEN <<"Missing Type">>
           ELSE IF expense_type \notin valid_types THEN <<"Invalid Type">> ELSE <<>>)
       \o (IF method = <<>> THEN <<"Missing Method">>
           ELSE IF method \notin valid_methods THEN <<"Invalid Method">> ELSE <<>>)

\* What the loop appends to errors for a row too short to examine, and whether it does.
\* Variant of ShortRowError that skips a short row without recording it.
ShortRowForgotten(errs, n) == errs
ShortRowError(errs, n) == Append(errs, [row |-> n, error |-> <<"Not enough columns">>])

(* ------------------------------- inputs -------------------------------- *)
HeaderCells == [j \in 1..7 |-> T(Columns[j])]
PaddedHeaderCells == [HeaderCells EXCEPT ![1] = T(<<" ","D","a","t","e"," ">>)]
Margin == T(<<"x">>)

RowA == <<D(2025, 1, 1), T(<<"S","t","o","r","e">>), T(<<"$","1",",","2","3","4",".","5","6">>), T(<<"n","o","t","e">>), T(<<"G","r","o","c","e","r","i","e","s">>), N(1), T(<<"C","a","s","h">>)>>
RowF == <<T(<<"2","0","2","5","-","0","6","-","1","5">>), T(<<"C","a","f","e">>), T(<<"a","b","c">>), NaN, T(<<"F","o","o","d">>), N(24), T(<<"V","I","S","A">>)>>
RowP == <<D(2024, 12, 31), T(<<"S","h","e","l","l">>), N(45), NaN, T(<<"G","a","s">>), N(52), T(<<"D","e","b","i","t">>)>>
RowE == <<NaN, T(<<"R","e","n","t">>), N(900), NaN, T(<<"H","o","u","s","i","n","g">>), NaN, T(<<"C","h","e","q","u","e">>)>>
RowU == <<T(<<"s","o","o","n">>), T(<<"V","e","t">>), T(<<"8","0",".","5">>), NaN, T(<<"P","e","t"," ","C","a","r","e">>), N(7), T(<<"B","i","t","c","o","i","n">>)>>
RowG == <<D(2025, 3, 2), T(<<"S","h","e","l","l">>), N(45), T(<<"s", "a", "y", " ", Quote, "h", "i", Quote>>), T(<<"G","a","s">>), N(9), T(<<"D","e","b","i","t">>)>>
SampleRows == <<RowA, RowF, RowP, RowE, RowU, RowG>>

\* Runs of consecutive sample rows (cyclically) from every other row, of every length
\* up to MaxData.
Block(start, len) == [i \in 1..len |-> SampleRows[((start + i - 2) % Len(SampleRows)) + 1]]
BlockStarts == {1, 3, 5}
Blocks == {Block(st, len) : st \in BlockStarts, len \in 0..MaxData}

\* A row of the grid: `left` margin cells, the given cells, margin cells up to `width`
\* (the cells are cut at the right edge when the grid is narrower).
GridRow(left, width, cells) ==
    [j \in 1..width |->
        IF j <= left THEN Margin
        ELSE IF j - left <= Len(cells) THEN cells[j - left] ELSE Margin]
TitleRow(width) == [j \in 1..width |-> IF j = 1 THEN T(<<"E","x","p","e","n","s","e","s">>) ELSE NaN]

\* A sheet: `top` title rows, the header row (none when header is empty), the data rows.
MkSheet(name, top, left, width, header, data) ==
    [name |-> name,
     grid |-> [i \in 1..top |-> TitleRow(width)]
              \o (IF header = <<>> THEN <<>> ELSE <<GridRow(left, width, header)>>)
              \o [i \in 1..Len(data) |-> GridRow(left, width, data[i])]]

Plain == {MkSheet(<<"J","a","n">>, 0, 0, 7, HeaderCells, b) : b \in Blocks}
Offset == {MkSheet(<<"F","e","b">>, 1, 2, 10, HeaderCells, b) : b \in {Block(3, 2), Block(6, 2)}}
Narrow == {MkSheet(<<"M","a","r">>, 1, 2, 8, HeaderCells, Block(1, 1))}
Unlocated == {MkSheet(<<"N","o","t","e","s">>, 1, 0, 7, <<>>, Block(1, 1)),
              [name |-> <<"B","l","a","n","k">>, grid |-> <<>>],
              MkSheet(<<"M","a","y">>, 0, 0, 7, PaddedHeaderCells, Block(1, 1))}
\* A padded " Date " above the real header row; "Date" again below it, further left.
Decoys == {[name |-> <<"J","u","n">>,
            grid |-> <<GridRow(0, 7, PaddedHeaderCells), GridRow(0, 7, HeaderCells), GridRow(0, 7, RowA)>>],
           [name |-> <<"J","u","l">>,
            grid |-> <<GridRow(1, 8, HeaderCells),
                       [GridRow(1, 8, RowG) EXCEPT ![1] = T(HeaderText)],
                       GridRow(1, 8, RowA)>>]}
Summaries == {MkSheet(<<"S","u","m","m","a","r","y">>, 0, 0, 7, HeaderCells, Block(1, 1)),
              MkSheet(<<"S","U","M","M","A","R","Y">>, 0, 0, 5, HeaderCells, Block(1, 1)),
              MkSheet(<<"s","u","m","m","a","r","y">>, 1, 0, 7, <<>>, <<>>),
              MkSheet(<<"S","u","m","m","a","r","y"," ","2">>, 0, 0, 7, HeaderCells, Block(6, 1))}
Sheets == Plain \cup Offset \cup Narrow \cup Unlocated \cup Decoys \cup Summaries

\* Workbooks: 1..MaxSheets sheets whose names differ (case-insensitively, as in Excel).
Workbooks ==
    UNION {{w \in [1..n -> Sheets] :
               \A i, j \in 1..n : i # j => lower(w[i].name) # lower(w[j].name)} : n \in 1..MaxSheets}

\* CSV files handed to the validator directly: up to three leading lines, then data lines.
SampleLines ==
    {<<>>,
     <<"2", "0", "2", "5", "-", "0", "1", "-", "0", "1", Comma, "A", Comma, Quote, "$", "1", Comma, "0", "0", "0", Quote, Comma, Comma, "G", "a", "s", Comma, "1", Comma, "C", "a", "s", "h">>,
     <<"2","0","2","5","-","0","1","-","0","2",",","B",",","4","5",",",","," ","G","a","s"," ",",","1",","," ","D","e","b","i","t"," ">>,
     <<" ",",","B",",","4","5",",",",","G","a","s",",","1",",","D","e","b","i","t">>,
     <<"2","0","2","5","-","0","1","-","0","3",",","B",",","4"," ","5",",",",","F","o","o","d",",","1",",","C","a","r","d">>,
     <<"2","0","2","5","-","0","1","-","0","4",",","B",",",",",",",",","1",",">>,
     <<"2","0","2","5","-","0","1","-","0","5",",","B",",","4","5">>,
     <<"2","0","2","5","-","0","1","-","0","6",",","B",",","1","e","3",",",",","O","t","h","e","r",",","1",",","V","I","S","A",",","e","x","t","r","a">>}
LeadingLines == {<<>>, <<"D","a","t","e",",","P","l","a","c","e",",","A","m","o","u","n","t",",","N","o","t","e","s",",","T","y","p","e",",","W","e","e","k",",","M","e","t","h","o","d">>}
CsvFiles ==
    {<<>>, <<<<>>, <<>>>>}
    \cup UNION {{<<<<>>, <<>>, l>> \o d : l \in LeadingLines, d \in [1..n -> SampleLines]} : n \in 0..MaxLines}

(* ------------------------------- state --------------------------------- *)
VARIABLES
    workbook,        \* the sheets of the input file: <<[name, grid]>>
    sheet_idx,       \* sheets the loop has consumed
    all_dataframes,  \* the frames appended so far
    total_rows,
    log,             \* the "Skipped" / "Read" lines printed: <<[sheet, what]>>
    searched,        \* the header searches run: {[sheet, header_row_idx, date_col_idx]}
    combined_df,     \* the concatenated frame that was written
    cpc,             \* converter: "loop", "done", "off" (not run)
    result,          \* "running", "success", "no_sheets", "exception", "none"
    csv_file,        \* lines of the CSV file on disk
    file_exists,
    vpc,             \* validator: "idle", "rows", "done"
    reader_pos,      \* lines the csv reader has consumed
    row_num,
    valid_count,
    errors,          \* <<[row, error]>>, error the messages of the row
    vresult          \* "none", "success", "failure"

vars == <<workbook, sheet_idx, all_dataframes, total_rows, log, searched, combined_df, cpc,
          result, csv_file, file_exists, vpc, reader_pos, row_num, valid_count, errors, vresult>>
conv_vars == <<workbook, sheet_idx, all_dataframes, total_rows, log, searched, combined_df, cpc, result>>
val_vars == <<vpc, reader_pos, row_num, valid_count, errors, vresult>>

ValidatorIdle ==
    /\ vpc = "idle" /\ reader_pos = 0 /\ row_num = 0 /\ valid_count = 0
    /\ errors = <<>> /\ vresult = "none"

\* Either the converter is started on a workbook (no output file yet), or the
\* validator is started on a CSV file that is already on disk.
Init ==
    /\ ValidatorIdle
    /\ sheet_idx = 0 /\ all_dataframes = <<>> /\ total_rows = 0
    /\ log = <<>> /\ searched = {} /\ combined_df = <<>>
    /\ \/ /\ workbook \in Workbooks
          /\ cpc = "loop" /\ result = "running"
          /\ csv_file = <<>> /\ file_exists = FALSE
       \/ /\ workbook = <<>>
          /\ cpc = "off" /\ result = "none"
          /\ csv_file \in CsvFiles /\ file_exists = TRUE

(* ------------------------ convert_xls_to_csv --------------------------- *)
InLoop == cpc = "loop" /\ sheet_idx < Len(workbook)
Sheet == workbook[sheet_idx + 1]
\* The header search of the current sheet, with the locals it leaves.
Search ==
    [sheet |-> sheet_idx + 1,
     header_row_idx |-> locate(Sheet.grid)[1],
     date_col_idx |-> locate(Sheet.grid)[2]]
Skip(what) ==
    /\ log' = Append(log, [sheet |-> sheet_idx + 1, what |-> what])
    /\ sheet_idx' = sheet_idx + 1
    /\ UNCHANGED <<workbook, all_dataframes, total_rows, combined_df, cpc, result,
                   csv_file, file_exists>>
    /\ UNCHANGED val_vars

\* if sheet_name.lower() == 'summary': continue
SkipExcluded ==
    /\ InLoop
    /\ Excluded(Sheet.name)
    /\ Skip("excluded")
    /\ UNCHANGED searched

\* header_row_idx is None, or date_col_idx is None: continue
SkipNotLocated ==
    /\ InLoop
    /\ ~Excluded(Sheet.name)
    /\ ~Located(Sheet.grid)
    /\ Skip(IF locate(Sheet.grid)[1] = None THEN "no header row found" ELSE "Date column not found")
    /\ searched' = searched \cup {Search}

\* df.columns = [...] raises ValueError (length mismatch); the except clause of the
\* function prints the error and returns False.
RaiseLengthMismatch ==
    /\ InLoop
    /\ ~Excluded(Sheet.name)
    /\ LengthMismatch(Sheet.grid)
    /\ searched' = searched \cup {Search}
    /\ cpc' = "done"
    /\ result' = "exception"
    /\ UNCHANGED <<workbook, sheet_idx, all_dataframes, total_rows, log, combined_df,
                   csv_file, file_exists>>
    /\ UNCHANGED val_vars

\* if len(df) == 0: continue
SkipNoRows ==
    /\ InLoop
    /\ ~Excluded(Sheet.name)
    /\ Located(Sheet.grid) /\ ~LengthMismatch(Sheet.grid)
    /\ extract(Sheet.grid, sheet_idx + 1) = <<>>
    /\ Skip("no data rows")
    /\ searched' = searched \cup {Search}

\* all_dataframes.append(df); total_rows += len(df)
AppendSheet ==
    /\ InLoop
    /\ ~Excluded(Sheet.name)
    /\ Located(Sheet.grid) /\ ~LengthMismatch(Sheet.grid)
    /\ LET df == extract(Sheet.grid, sheet_idx + 1) IN
          /\ df # <<>>
          /\ all_dataframes' = Append(all_dataframes, df)
          /\ total_rows' = total_rows + Len(df)
    /\ log' = Append(log, [sheet |-> sheet_idx + 1, what |-> "read"])
    /\ searched' = searched \cup {Search}
    /\ sheet_idx' = sheet_idx + 1
    /\ UNCHANGED <<workbook, combined_df, cpc, result, csv_file, file_exists>>
    /\ UNCHANGED val_vars

\* if not all_dataframes: print("Error: No sheets to process after filtering."); return False
NoSheets ==
    /\ cpc = "loop" /\ sheet_idx = Len(workbook)
    /\ all_dataframes = <<>>
    /\ cpc' = "done"
    /\ result' = "no_sheets"
    /\ UNCHANGED <<workbook, sheet_idx, all_dataframes, total_rows, log, searched, combined_df,
                   csv_file, file_exists>>
    /\ UNCHANGED val_vars

\* concat, the three blank lines, to_csv(mode='a'), return True
WriteCsv ==
    /\ cpc = "loop" /\ sheet_idx = Len(workbook)
    /\ all_dataframes # <<>>
    /\ combined_df' = concat(all_dataframes)
    /\ csv_file' = file_lines(concat(all_dataframes))
    /\ file_exists' = TRUE
    /\ cpc' = "done"
    /\ result' = "success"
    /\ UNCHANGED <<workbook, sheet_idx, all_dataframes, total_rows, log, searched>>
    /\ UNCHANGED val_vars

(* ---------------------------- validate_csv ----------------------------- *)
\* The converter's function returns False exactly when it did not succeed.
ConverterReturned == cpc \in {"done", "off"}

\* open(csv_file) raises FileNotFoundError: return False
VFileNotFound ==
    /\ ConverterReturned /\ vpc = "idle"
    /\ ~file_exists
    /\ vpc' = "done"
    /\ vresult' = "failure"
    /\ UNCHANGED <<reader_pos, row_num, valid_count, errors>>
    /\ UNCHANGED conv_vars
    /\ UNCHANGED <<csv_file, file_exists>>

\* open the file, skip the first 3 rows, row_num = 4, valid_count = 0
VOpen ==
    /\ ConverterReturned /\ vpc = "idle"
    /\ file_exists
    /\ vpc' = "rows"
    /\ reader_pos' = Min(HeaderRows, Len(csv_file))
    /\ row_num' = HeaderRows + 1
    /\ UNCHANGED <<valid_count, errors, vresult>>
    /\ UNCHANGED conv_vars
    /\ UNCHANGED <<csv_file, file_exists>>

HasRow == vpc = "rows" /\ reader_pos < Len(csv_file)
Row == csv_row(csv_file[reader_pos + 1])

\* if len(row) < 7: errors.append(...); row_num += 1; continue
VShortRow ==
    /\ HasRow
    /\ Len(Row) < MinColumns
    /\ errors' = ShortRowError(errors, row_num)
    /\ row_num' = row_num + 1
    /\ reader_pos' = reader_pos + 1
    /\ UNCHANGED <<vpc, valid_count, vresult>>
    /\ UNCHANGED conv_vars
    /\ UNCHANGED <<csv_file, file_exists>>

\* if row_errors: errors.append(...)
VInvalidRow ==
    /\ HasRow
    /\ Len(Row) >= MinColumns
    /\ row_errors(Row) # <<>>
    /\ errors' = Append(errors, [row |-> row_num, error |-> row_errors(Row)])
    /\ row_num' = row_num + 1
    /\ reader_pos' = reader_pos + 1
    /\ UNCHANGED <<vpc, valid_count, vresult>>
    /\ UNCHANGED conv_vars
    /\ UNCHANGED <<csv_file, file_exists>>

\* else: valid_count += 1
VValidRow ==
    /\ HasRow
    /\ Len(Row) >= MinColumns
    /\ row_errors(Row) = <<>>
    /\ valid_count' = valid_count + 1
    /\ row_num' = row_num + 1
    /\ reader_pos' = reader_pos + 1
    /\ UNCHANGED <<vpc, errors, vresult>>
    /\ UNCHANGED conv_vars
    /\ UNCHANGED <<csv_file, file_exists>>

\* return len(errors) == 0
VReturn ==
    /\ vpc = "rows" /\ reader_pos >= Len(csv_file)
    /\ vpc' = "done"
    /\ vresult' = IF Len(errors) = 0 THEN "success" ELSE "failure"
    /\ UNCHANGED <<reader_pos, row_num, valid_count, errors>>
    /\ UNCHANGED conv_vars
    /\ UNCHANGED <<csv_file, file_exists>>

Next ==
    \/ SkipExcluded \/ SkipNotLocated \/ RaiseLengthMismatch \/ SkipNoRows \/ AppendSheet
    \/ NoSheets \/ WriteCsv
    \/ VFileNotFound \/ VOpen \/ VShortRow \/ VInvalidRow \/ VValidRow \/ VReturn

Spec == Init /\ [][Next]_vars

(* ----------------------------- properties ------------------------------ *)
Grid(s) == workbook[s].grid
GridWidth(g) == IF g = <<>> THEN 0 ELSE Len(g[1])
Positions(g) == (0..(Len(g) - 1)) \X (0..(GridWidth(g) - 1))
At(g, r, c) == g[r + 1][c + 1]
SheetIds == 1..Len(workbook)
Converting == cpc # "off"

IsDate(cell) == cell.k = "text" /\ cell.s = <<"D", "a", "t", "e">>
IsDateTrimmed(cell) == cell.k = "text" /\ strip(cell.s) = <<"D", "a", "t", "e">>

\* (r, c) is the first "Date" cell in reading order: topmost row, leftmost in it.
FirstDateAt(g, r, c) ==
    /\ <<r, c>> \in Positions(g)
    /\ IsDate(At(g, r, c))
    /\ \A q \in Positions(g) : IsDate(At(g, q[1], q[2])) => (q[1] > r \/ (q[1] = r /\ q[2] >= c))
\* The same for cells whose trimmed value is "Date".
FirstTrimmedDateAt(g, r, c) ==
    /\ <<r, c>> \in Positions(g)
    /\ IsDateTrimmed(At(g, r, c))
    /\ \A q \in Positions(g) :
          IsDateTrimmed(At(g, q[1], q[2])) => (q[1] > r \/ (q[1] = r /\ q[2] >= c))
HasHeader(g) == \E q \in Positions(g) : IsDate(At(g, q[1], q[2]))
\* The topmost row holding a "Date" cell, and the leftmost such cell of that row.
TheHeader(g) ==
    LET DateIn(r) == \E c \in 0..(GridWidth(g) - 1) : IsDate(At(g, r, c))
        r0 == CHOOSE r \in 0..(Len(g) - 1) : DateIn(r) /\ \A r2 \in 0..(r - 1) : ~DateIn(r2)
        c0 == CHOOSE c \in 0..(GridWidth(g) - 1) :
                  IsDate(At(g, r0, c)) /\ \A c2 \in 0..(c - 1) : ~IsDate(At(g, r0, c2))
    IN <<r0, c0>>

IsSummary(s) == lower(workbook[s].name) = <<"s", "u", "m", "m", "a", "r", "y">>
\* The Date cell is present, parses, and is on or after 2025-01-01.
Survives(cell) ==
    /\ cell.k # "nan"
    /\ to_datetime(cell) # NaT
    /\ to_datetime(cell) >= MkDate(2025, 1, 1)
\* Rows of sheet s below its header whose Date cell survives.
SurvivingRows(s) ==
    IF HasHeader(Grid(s))
    THEN LET h == TheHeader(Grid(s))
         IN {r \in (h[1] + 1)..(Len(Grid(s)) - 1) : Survives(At(Grid(s), r, h[2]))}
    ELSE {}
FullWindow(s) == TheHeader(Grid(s))[2] + 7 <= GridWidth(Grid(s))
\* The text of a source cell as it stands.
SourceText(cell) ==
    IF cell.k = "text" THEN cell.s
    ELSE IF cell.k = "int" THEN str_int(cell.n)
    ELSE <<>>
HasChar(s, ch) == \E i \in 1..Len(s) : s[i] = ch

Origin(row) == <<row.src_sheet, row.src_row>>
Before(a, b) == a[1] < b[1] \/ (a[1] = b[1] /\ a[2] < b[2])
FrameRows == UNION {{all_dataframes[i][k] : k \in 1..Len(all_dataframes[i])} : i \in 1..Len(all_dataframes)}
OutputRows == {combined_df[k] : k \in 1..Len(combined_df)}
\* The data lines of the CSV file, parsed.
DataLines == 1..(Len(csv_file) - HeaderRows)
DataRow(k) == csv_row(csv_file[HeaderRows + k])
Written == Converting /\ result = "success"

Usable(s) ==
    /\ ~IsSummary(s)
    /\ HasHeader(Grid(s))
    /\ FullWindow(s)
    /\ SurvivingRows(s) # {}
(* C1: a data-shape anomaly confined to one sheet never aborts the conversion: a
   workbook with at least one usable sheet (not excluded, header located, a full
   window, a surviving row) converts successfully and emits that sheet's records,
   whatever the shape of the other sheets. *)
C1_AnomalyNeverAborts ==
    (cpc = "done" /\ \E s \in SheetIds : Usable(s)) =>
        /\ result = "success"
        /\ \A s \in SheetIds : Usable(s) => \E row \in OutputRows : row.src_sheet = s

ExpectedOrigins ==
    UNION {{<<s, r>> : r \in SurvivingRows(s)} : s \in {x \in SheetIds : ~IsSummary(x)}}
(* C2: the written output is the concatenation, in workbook sheet order, of each
   contributing sheet's surviving rows in row order: records of an earlier sheet
   precede those of a later one, and records of one sheet keep their row order. *)
C2_OrderPreserved ==
    /\ \A i, j \in 1..Len(all_dataframes) : i < j =>
          \A a \in 1..Len(all_dataframes[i]), b \in 1..Len(all_dataframes[j]) :
              all_dataframes[i][a].src_sheet < all_dataframes[j][b].src_sheet
    /\ \A i \in 1..Len(all_dataframes) : \A a, b \in 1..Len(all_dataframes[i]) : a < b =>
          Before(Origin(all_dataframes[i][a]), Origin(all_dataframes[i][b]))
    /\ Written =>
          /\ \A a, b \in 1..Len(combined_df) : a < b => Before(Origin(combined_df[a]), Origin(combined_df[b]))
          /\ {Origin(row) : row \in OutputRows} = ExpectedOrigins
          /\ Len(csv_file) = HeaderRows + Len(combined_df)
          /\ \A k \in 1..Len(combined_df) :
                DataRow(k) = [j \in 1..7 |-> SourceText(combined_df[k].cells[j])]
C2_Witness ==
    /\ Written
    /\ \E a, b, c \in 1..Len(combined_df) :
          /\ a < b /\ b < c
          /\ combined_df[a].src_sheet = combined_df[b].src_sheet
          /\ combined_df[b].src_sheet < combined_df[c].src_sheet

SkippedSheet(s) == IsSummary(s) \/ ~HasHeader(Grid(s)) \/ SurvivingRows(s) = {}
(* C3: for a readable workbook the conversion ends with "No sheets to process"
   exactly when every sheet was skipped (excluded, no header located, or no row
   left after filtering), and that is the only fatal outcome of the sheet loop. *)
C3_OnlyFatalIsNoSheets ==
    cpc = "done" =>
        /\ result = "no_sheets" <=> \A s \in SheetIds : SkippedSheet(s)
        /\ result \in {"success", "no_sheets"}

ReadSheets == {log[i].sheet : i \in {k \in 1..Len(log) : log[k].what = "read"}}
(* C4: every emitted record has a Date that parsed and is on or after 2025-01-01,
   and conversely every row below the header of a processed sheet whose Date
   parses to a date on or after 2025-01-01 is emitted. *)
C4_DateFloor ==
    /\ \A row \in FrameRows \cup OutputRows :
          /\ row.cells[1].k = "text"
          /\ parse_iso(row.cells[1].s) >= MkDate(2025, 1, 1)
    /\ cpc = "done" =>
          \A s \in ReadSheets : \A r \in SurvivingRows(s) :
              \E row \in OutputRows : Origin(row) = <<s, r>>

(* C5 as written: the Amount field of every written record holds no '$' and no ','. *)
C5_AmountStripped ==
    Written => \A k \in 1..Len(combined_df) :
        ~HasChar(DataRow(k)[3], "$") /\ ~HasChar(DataRow(k)[3], ",")
(* C5 as amended: the Amount field of every written record is the text of the
   source Amount cell unchanged (a number in decimal notation, an empty cell as the
   empty field); '$' and ',' stay in it. *)
C5_AmountVerbatim ==
    Written => \A k \in 1..Len(combined_df) :
        LET s == combined_df[k].src_sheet
            r == combined_df[k].src_row
        IN DataRow(k)[3] = SourceText(At(Grid(s), r, TheHeader(Grid(s))[2] + 2))
C5_Witness ==
    /\ Written
    /\ \E k \in 1..Len(combined_df) :
          /\ DataRow(k)[3] = <<"$", "1", ",", "2", "3", "4", ".", "5", "6">>
          /\ At(Grid(combined_df[k].src_sheet), combined_df[k].src_row,
                TheHeader(Grid(combined_df[k].src_sheet))[2] + 2).s = DataRow(k)[3]

Numeric(amount) == amount # <<>> /\ float_ok(remove(remove(amount, "$"), ","))
RowOkLiteral(r) ==
    /\ Len(r) >= 7
    /\ r[1] # <<>>
    /\ Numeric(r[3])
    /\ r[5] \in valid_types
    /\ r[7] \in valid_methods
RowOk(r) ==
    /\ Len(r) >= 7
    /\ strip(r[1]) # <<>>
    /\ Numeric(strip(r[3]))
    /\ strip(r[5]) \in valid_types
    /\ strip(r[7]) \in valid_methods
ScansEveryRow ==
    /\ reader_pos = Len(csv_file)
    /\ valid_count + Len(errors) = Cardinality(DataLines)
    /\ \A k \in DataLines : Len(DataRow(k)) < 7 =>
          \E i \in 1..Len(errors) :
              errors[i] = [row |-> HeaderRows + k, error |-> <<"Not enough columns">>]
(* C6 as written: the validator examines every row after the first three (a row of
   fewer than 7 columns is recorded as an error and the scan goes on) and returns
   success exactly when every examined row has at least 7 columns, a non-empty
   Date, a non-empty numeric Amount ('$' and ',' removed), a Type of the 14 and a
   Method of the 7, the fields taken as they stand in the file. *)
C6_AggregateLiteral ==
    (vpc = "done" /\ file_exists) =>
        /\ ScansEveryRow
        /\ vresult = "success" <=> \A k \in DataLines : RowOkLiteral(DataRow(k))
(* C6 as amended: the same, with Date, Amount, Type and Method each taken after
   trimming its surrounding whitespace. *)
C6_AggregateTrimmed ==
    (vpc = "done" /\ file_exists) =>
        /\ ScansEveryRow
        /\ vresult = "success" <=> \A k \in DataLines : RowOk(DataRow(k))
C6_Witness ==
    /\ vpc = "done" /\ cpc = "off"
    /\ \E k, m \in DataLines :
          /\ k < m
          /\ Len(DataRow(k)) < 7
          /\ RowOk(DataRow(m)) /\ ~RowOkLiteral(DataRow(m))
    /\ vresult = "failure"

WellFormed(cells) ==
    /\ Numeric(SourceText(cells[3]))
    /\ SourceText(cells[5]) \in valid_types
    /\ SourceText(cells[7]) \in valid_methods
Messages(e) == {e.error[i] : i \in 1..Len(e.error)}
(* C7: when the conversion succeeds and every emitted record has a numeric Amount,
   a Type of the 14 and a Method of the 7, the validator run on the written file
   skips exactly the three leading blank lines, counts every record as valid,
   records no error and returns success; an emitted record of Type "Food" makes it
   return failure with an Invalid Type error for that record's row. *)
C7_RoundTrip ==
    /\ (Written /\ vpc = "rows") =>
          /\ reader_pos >= HeaderRows
          /\ row_num = reader_pos + 1
          /\ valid_count + Len(errors) = reader_pos - HeaderRows
    /\ (Written /\ vpc = "done") =>
        /\ reader_pos = Len(csv_file)
        /\ Len(csv_file) = HeaderRows + Len(combined_df)
        /\ \A i \in 1..HeaderRows : csv_file[i] = <<>>
        /\ valid_count + Len(errors) = Len(combined_df)
        /\ (\A k \in 1..Len(combined_df) : WellFormed(combined_df[k].cells)) =>
              /\ valid_count = Len(combined_df)
              /\ errors = <<>>
              /\ vresult = "success"
        /\ \A k \in 1..Len(combined_df) :
              SourceText(combined_df[k].cells[5]) = <<"F", "o", "o", "d">> =>
                  /\ vresult = "failure"
                  /\ \E i \in 1..Len(errors) :
                        errors[i].row = HeaderRows + k /\ "Invalid Type" \in Messages(errors[i])
C7_Witness ==
    /\ Written /\ vpc = "done"
    /\ Len(combined_df) >= 2
    /\ \A k \in 1..Len(combined_df) : WellFormed(combined_df[k].cells)
    /\ \E k \in 1..Len(combined_df) : HasChar(SourceText(combined_df[k].cells[3]), ",")
    /\ vresult = "success"

(* C8: a sheet whose name is "summary" in any letter case contributes no record
   whatever its content, is skipped before any header search runs on it, and leaves
   the records of the other sheets as their own grids determine them. *)
C8_SummaryExcluded ==
    /\ Len(log) = sheet_idx
    /\ \A s \in SheetIds : IsSummary(s) =>
          /\ \A e \in searched : e.sheet # s
          /\ \A i \in 1..Len(all_dataframes) : all_dataframes[i][1].src_sheet # s
          /\ \A k \in 1..Len(combined_df) : combined_df[k].src_sheet # s
          /\ s <= sheet_idx => log[s] = [sheet |-> s, what |-> "excluded"]
    /\ Written => {Origin(row) : row \in OutputRows} = ExpectedOrigins
C8_Witness ==
    /\ Written
    /\ \E s \in SheetIds :
          /\ IsSummary(s)
          /\ workbook[s].name # <<"S", "u", "m", "m", "a", "r", "y">>
          /\ HasHeader(Grid(s))

FromWindow(row) ==
    LET g == Grid(row.src_sheet) IN
    /\ HasHeader(g)
    /\ LET h == TheHeader(g)
           src == g[row.src_row + 1]
       IN /\ row.src_row > h[1] /\ row.src_row < Len(g)
          /\ row.cells = [j \in 1..7 |->
                            IF j = 1 THEN T(strftime(to_datetime(src[h[2] + 1])))
                            ELSE src[h[2] + j]]
(* C9: every record extracted from a sheet whose header is at (r, c) is built from
   the 7 cells at columns c..c+6 of one row strictly below r, in the order Date,
   Place, Amount, Notes, Type, Week, Method; the written line holds those 7 fields. *)
C9_ColumnWindow ==
    /\ \A i \in 1..Len(all_dataframes) : \A a \in 1..Len(all_dataframes[i]) :
          FromWindow(all_dataframes[i][a])
    /\ \A k \in 1..Len(combined_df) : FromWindow(combined_df[k])
    /\ Written => \A k \in 1..Len(combined_df) :
          DataRow(k) = [j \in 1..7 |-> SourceText(combined_df[k].cells[j])]
C9_Witness ==
    /\ Written
    /\ \E row \in OutputRows : TheHeader(Grid(row.src_sheet)) = <<1, 2>>

(* C10 as written: the header row is the topmost row holding a cell whose trimmed
   value is "Date", the anchor the leftmost such cell of that row, and the sheet is
   reported as not found exactly when no cell has the trimmed value "Date". *)
C10_LocateTrimmed ==
    \A e \in searched :
        LET g == Grid(e.sheet) IN
        /\ e.header_row_idx = None <=> ~\E q \in Positions(g) : IsDateTrimmed(At(g, q[1], q[2]))
        /\ e.header_row_idx # None => FirstTrimmedDateAt(g, e.header_row_idx, e.date_col_idx)
(* C10 as amended: the same with the cell value compared as it stands, untrimmed
   (a cell " Date " is not a header cell); a sheet not found is skipped with the
   "no header row found" line and the loop goes on. *)
C10_LocateExact ==
    \A e \in searched :
        LET g == Grid(e.sheet) IN
        /\ e.header_row_idx = None <=> ~HasHeader(g)
        /\ e.header_row_idx # None => FirstDateAt(g, e.header_row_idx, e.date_col_idx)
        /\ e.header_row_idx = None =>
              /\ e.sheet <= Len(log)
              /\ log[e.sheet] = [sheet |-> e.sheet, what |-> "no header row found"]
C10_Witness ==
    /\ \E e \in searched :
          /\ e.header_row_idx # None
          /\ \E q \in Positions(Grid(e.sheet)) :
                /\ IsDate(At(Grid(e.sheet), q[1], q[2]))
                /\ q[1] > e.header_row_idx /\ q[2] < e.date_col_idx
    /\ \E e \in searched : e.header_row_idx = None

====
